---------------------------- MODULE Spec2Model ----------------------------
(***************************************************************************)
(* Disproportionality analysis (ROR / PRR) of src/models/disproportionality *)
(* as a state machine.  A DataFrame is a sequence of records, each carrying *)
(* its index label; a float is NaN or an exact rational (the confidence     *)
(* bounds, which go through sqrt / log / exp, are fixed-point rationals);   *)
(* a Python exception ends the call in pc = "raised".                       *)
(***************************************************************************)
EXTENDS Integers, Sequences, FiniteSets, TLC

(***************************************************************************)
(* Bounds of the model.                                                     *)
(***************************************************************************)
\* longest frame of the exhaustively enumerated small frames
MaxRecords == 3
\* largest cell count of the block frames (all drug/event present)
MaxCell == 5

(***************************************************************************)
(* Values.  df[mask] is SelectSeq(df, mask): the rows whose mask is true,    *)
(* in order, with their index labels.                                       *)
(***************************************************************************)
\* a missing value (NaN / None) of a categorical column
NA == "NA"
Drugs == {"A", "B"}
Events == {"X", "Y"}
Strata == {"S1", "S2"}

\* element-wise  series == value : a missing value equals nothing
PdEq(x, v) == x # NA /\ x = v
\* element-wise  series != value : true for a missing value
PdNe(x, v) == ~PdEq(x, v)
\* series.notna()
NotNa(x) == x # NA

(***************************************************************************)
(* build_contingency_table                                                  *)
(***************************************************************************)
CellA_AnyDrug(frame, dv, ev) ==
    Len(SelectSeq(frame, LAMBDA r : PdEq(r.event, ev)))

CellA(frame, dv, ev) ==
    Len(SelectSeq(frame, LAMBDA r : PdEq(r.drug, dv) /\ PdEq(r.event, ev)))

CellB_NoNotna(frame, dv, ev) ==
    Len(SelectSeq(frame, LAMBDA r : PdEq(r.drug, dv) /\ PdNe(r.event, ev)))

CellB(frame, dv, ev) ==
    Len(SelectSeq(frame, LAMBDA r :
        PdEq(r.drug, dv) /\ PdNe(r.event, ev) /\ NotNa(r.event)))

CellC(frame, dv, ev) ==
    Len(SelectSeq(frame, LAMBDA r :
        PdNe(r.drug, dv) /\ NotNa(r.drug) /\ PdEq(r.event, ev)))

CellD_NoNotna(frame, dv, ev) ==
    Len(SelectSeq(frame, LAMBDA r : PdNe(r.drug, dv) /\ PdNe(r.event, ev)))

CellD(frame, dv, ev) ==
    Len(SelectSeq(frame, LAMBDA r :
        PdNe(r.drug, dv) /\ NotNa(r.drug) /\ PdNe(r.event, ev) /\ NotNa(r.event)))

build_contingency_table(frame, dv, ev) ==
    [a |-> CellA(frame, dv, ev), b |-> CellB(frame, dv, ev),
     c |-> CellC(frame, dv, ev), d |-> CellD(frame, dv, ev)]

(***************************************************************************)
(* Floats.  A float is NaN or an exact rational n/d in lowest terms, d > 0. *)
(* Every comparison with NaN is false, as in IEEE 754.                      *)
(***************************************************************************)
NaN == [nan |-> TRUE, n |-> 0, d |-> 1]

Abs(x) == IF x < 0 THEN -x ELSE x

RECURSIVE GCD(_, _)
GCD(x, y) == IF y = 0 THEN x ELSE GCD(y, x % y)

\* the float n/d, d # 0
Rat(n, d) ==
    LET g == GCD(Abs(n), Abs(d))
        s == IF d < 0 THEN -1 ELSE 1
    IN  [nan |-> FALSE, n |-> (s * n) \div g, d |-> (s * d) \div g]

Zero == Rat(0, 1)
IsNaN(x) == x.nan

FAdd(x, y) ==
    LET g == GCD(x.d, y.d)
    IN  Rat(x.n * (y.d \div g) + y.n * (x.d \div g), (x.d \div g) * y.d)
FSub(x, y) == FAdd(x, Rat(-y.n, y.d))
FMul(x, y) ==
    LET g1 == GCD(Abs(x.n), y.d)
        g2 == GCD(Abs(y.n), x.d)
    IN  Rat((x.n \div g1) * (y.n \div g2), (x.d \div g2) * (y.d \div g1))
\* x / y, y # 0
FDiv(x, y) == FMul(x, Rat(y.d, y.n))

\* x > y, x >= y on floats
FGt(x, y) == ~x.nan /\ ~y.nan /\ x.n * y.d > y.n * x.d
FGe(x, y) == ~x.nan /\ ~y.nan /\ x.n * y.d >= y.n * x.d

(***************************************************************************)
(* np.sqrt, np.log, np.exp in fixed point: a value v stands for v / Scale.  *)
(***************************************************************************)
Scale == 10000
\* ln 2, scaled
Ln2 == (6931 * Scale) \div 10000

RECURSIVE ISqrtIn(_, _, _)
\* the largest r in lo..hi with r * r <= m
ISqrtIn(m, lo, hi) ==
    IF lo >= hi THEN lo
    ELSE LET mid == (lo + hi + 1) \div 2
         IN  IF mid * mid <= m THEN ISqrtIn(m, mid, hi)
             ELSE ISqrtIn(m, lo, mid - 1)

\* sqrt of the float q >= 0, scaled
SqrtFx(q) == ISqrtIn(((q.n * Scale) \div q.d) * Scale, 0, 4 * Scale)

RECURSIVE LnReduce(_, _, _)
\* p / q = 2^k * (p' / q') with 1 <= p'/q' < 2
LnReduce(p, q, k) ==
    IF p >= 2 * q THEN LnReduce(p, 2 * q, k + 1)
    ELSE IF p < q THEN LnReduce(2 * p, q, k - 1)
    ELSE [p |-> p, q |-> q, k |-> k]

\* ln of the float x > 0, scaled: ln(2^k m) = k ln 2 + 2 atanh((m-1)/(m+1))
LnFx(x) ==
    LET r  == LnReduce(x.n, x.d, 0)
        z  == ((r.p - r.q) * Scale) \div (r.p + r.q)
        z2 == (z * z) \div Scale
        t3 == (z * z2) \div Scale
        t5 == (t3 * z2) \div Scale
        t7 == (t5 * z2) \div Scale
    IN  r.k * Ln2 + 2 * (z + t3 \div 3 + t5 \div 5 + t7 \div 7)

RECURSIVE Pow2(_)
Pow2(k) == IF k = 0 THEN 1 ELSE 2 * Pow2(k - 1)

\* exp of the scaled v, scaled: e^v = 2^k e^r with 0 <= r < ln 2
ExpFx(v) ==
    LET k  == v \div Ln2
        r  == v - k * Ln2
        t2 == (r * r) \div (2 * Scale)
        t3 == (t2 * r) \div (3 * Scale)
        t4 == (t3 * r) \div (4 * Scale)
        t5 == (t4 * r) \div (5 * Scale)
        t6 == (t5 * r) \div (6 * Scale)
        t7 == (t6 * r) \div (7 * Scale)
        e  == Scale + r + t2 + t3 + t4 + t5 + t6 + t7
    IN  IF k >= 0 THEN e * Pow2(k) ELSE e \div Pow2(-k)

(***************************************************************************)
(* compute_ror, compute_prr.  The cells are Python ints, so a division by   *)
(* zero raises ZeroDivisionError: raised |-> TRUE.                          *)
(***************************************************************************)
RorResult(ror, lo, hi) ==
    [raised |-> FALSE, ror |-> ror, ci_low |-> lo, ci_high |-> hi]
RorRaise == [raised |-> TRUE, ror |-> NaN, ci_low |-> NaN, ci_high |-> NaN]

RorFormula_PointInterval(a, b, c, d) ==
    LET ror == Rat(a * d, b * c)
    IN  RorResult(ror, ror, ror)

RorFormula_Inverted(a, b, c, d) ==
    LET ror        == Rat(b * c, a * d)
        se_log_ror == SqrtFx(FAdd(FAdd(Rat(1, a), Rat(1, b)),
                                  FAdd(Rat(1, c), Rat(1, d))))
        log_ror    == LnFx(ror)
        half       == (196 * se_log_ror) \div 100
    IN  RorResult(ror, Rat(ExpFx(log_ror - half), Scale),
                       Rat(ExpFx(log_ror + half), Scale))

\* lines 32-43: all of a, b, c, d positive
RorFormula(a, b, c, d) ==
    LET ror        == Rat(a * d, b * c)
        se_log_ror == SqrtFx(FAdd(FAdd(Rat(1, a), Rat(1, b)),
                                  FAdd(Rat(1, c), Rat(1, d))))
        log_ror    == LnFx(ror)
        half       == (196 * se_log_ror) \div 100
    IN  RorResult(ror, Rat(ExpFx(log_ror - half), Scale),
                       Rat(ExpFx(log_ror + half), Scale))

compute_ror_AFirst(a, b, c, d) ==
    IF a = 0 THEN RorResult(Zero, Zero, Zero)
    ELSE IF b = 0 \/ c = 0 THEN RorResult(NaN, NaN, NaN)
    ELSE IF d = 0 THEN RorRaise
    ELSE RorFormula(a, b, c, d)

compute_ror_ZeroIsNaN(a, b, c, d) ==
    IF a = 0 \/ b = 0 \/ c = 0 THEN RorResult(NaN, NaN, NaN)
    ELSE IF d = 0 THEN RorRaise
    ELSE RorFormula(a, b, c, d)

compute_ror(a, b, c, d) ==
    IF b = 0 \/ c = 0 THEN RorResult(NaN, NaN, NaN)
    ELSE IF a = 0 THEN RorResult(Zero, Zero, Zero)
    \* line 36: 1/d
    ELSE IF d = 0 THEN RorRaise
    ELSE RorFormula(a, b, c, d)

PrrResult(prr, chi2) == [raised |-> FALSE, prr |-> prr, chi2 |-> chi2]
PrrRaise == [raised |-> TRUE, prr |-> NaN, chi2 |-> NaN]

ChiTerm_Yates(observed, expected) ==
    LET diff == FSub(Rat(observed, 1), expected)
        corr == FSub(IF FGe(diff, Zero) THEN diff ELSE FSub(Zero, diff),
                     Rat(1, 2))
    IN  FDiv(FMul(corr, corr), expected)

\* one term of the chi-square sum, expected # 0
ChiTerm(observed, expected) ==
    LET diff == FSub(Rat(observed, 1), expected)
    IN  FDiv(FMul(diff, diff), expected)

\* lines 70-89: a > 0, a + b > 0, c + d > 0
PrrFormula(a, b, c, d) ==
    LET n          == a + b + c + d
        expected_a == Rat((a + b) * (a + c), n)
        expected_b == Rat((a + b) * (b + d), n)
        expected_c == Rat((c + d) * (a + c), n)
        expected_d == Rat((c + d) * (b + d), n)
    IN  \* line 71: the float c / (c + d) is 0.0
        IF c = 0 THEN PrrRaise
        \* lines 83-86: an expected count of 0.0
        ELSE IF expected_a.n = 0 \/ expected_b.n = 0
                \/ expected_c.n = 0 \/ expected_d.n = 0 THEN PrrRaise
        ELSE PrrResult(FDiv(Rat(a, a + b), Rat(c, c + d)),
                       FAdd(FAdd(ChiTerm(a, expected_a), ChiTerm(b, expected_b)),
                            FAdd(ChiTerm(c, expected_c), ChiTerm(d, expected_d))))

compute_prr_AFirst(a, b, c, d) ==
    IF a = 0 THEN PrrResult(Zero, Zero)
    ELSE IF (a + b) = 0 \/ (c + d) = 0 THEN PrrResult(NaN, NaN)
    ELSE PrrFormula(a, b, c, d)

compute_prr(a, b, c, d) ==
    IF (a + b) = 0 \/ (c + d) = 0 THEN PrrResult(NaN, NaN)
    ELSE IF a = 0 THEN PrrResult(Zero, Zero)
    ELSE PrrFormula(a, b, c, d)

(***************************************************************************)
(* The state.                                                               *)
(***************************************************************************)
VARIABLES
    df,               \* the caller's record table
    stratify_col,     \* NA: run_disproportionality_analysis was called;
                      \* otherwise run_stratified_analysis, on this column
    drug_list, event_list, min_count, min_drug_reports,
    pc,               \* where the call stands
    strata,           \* df[stratify_col].dropna().unique()
    si,               \* position of the stratum loop in strata
    frame,            \* the df argument of the running orchestrator call
    di, ei,           \* positions of the drug loop and of the event loop
    results,          \* the orchestrator's list of result rows
    ret,              \* the table the last orchestrator call returned
    sresults,         \* run_stratified_analysis's list of tagged tables
    out,              \* the table returned to the caller
    calls,            \* history: build_contingency_table's calls in this run
    subsets,          \* history: the stratum_df of every stratum so far
    cells,            \* the (a, b, c, d) of a direct call of the metric functions
    ror_out,          \* <<>>, or <<what compute_ror(a, b, c, d) gave>>
    prr_out,          \* <<>>, or <<what compute_prr(a, b, c, d) gave>>
    run,              \* 1, or 2 when the same call is being made again
    first,            \* the table the first of the two calls returned
    sorted_as,        \* the orders sort_values has given, per ror column
    demo_df,          \* dedupe_cases: the caller's demographics table
    deduped           \* dedupe_cases: <<>>, or <<the table it returned>>

inputs == <<df, stratify_col, drug_list, event_list, min_count, min_drug_reports>>
vars == <<df, stratify_col, drug_list, event_list, min_count, min_drug_reports,
          pc, strata, si, frame, di, ei, results, ret, sresults, out, calls,
          subsets, cells, ror_out, prr_out, run, first, sorted_as,
          demo_df, deduped>>
cases == <<demo_df, deduped>>
metrics == <<cells, ror_out, prr_out>>
history == <<run, first, sorted_as>>

(***************************************************************************)
(* run_disproportionality_analysis                                          *)
(***************************************************************************)
\* line 155: df[df[drug_col] == drug]
DrugCases(fr, drug) == SelectSeq(fr, LAMBDA r : PdEq(r.drug, drug))

EnoughDrugReports_Off(fr, drug) == TRUE

\* line 158, negated: the drug is not skipped
EnoughDrugReports(fr, drug) == ~(Len(DrugCases(fr, drug)) < min_drug_reports)

PassesMinCount_Off(t) == TRUE

PassesMinCount_Total(t) == ~((t.a + t.b) < min_count)

\* line 168, negated
PassesMinCount(t) == ~(t.a < min_count)

PassesMinDrugReports_AOnly(t) == ~(t.a < min_drug_reports)

\* line 171, negated
PassesMinDrugReports(t) == ~((t.a + t.b) < min_drug_reports)

is_signal_ror_NaNPasses(ror, ror_ci_low) ==
    ~FGe(Rat(2, 1), ror) /\ ~FGe(Rat(1, 1), ror_ci_low)

\* line 179
is_signal_ror(ror, ror_ci_low) == FGt(ror, Rat(2, 1)) /\ FGt(ror_ci_low, Rat(1, 1))

\* line 180
is_signal_prr(prr, chi2, a) == FGt(prr, Rat(2, 1)) /\ FGt(chi2, Rat(4, 1)) /\ a >= 3

is_signal_And(ror, ror_ci_low, prr, chi2, a) ==
    is_signal_ror(ror, ror_ci_low) /\ is_signal_prr(prr, chi2, a)

\* line 181
is_signal(ror, ror_ci_low, prr, chi2, a) ==
    is_signal_ror(ror, ror_ci_low) \/ is_signal_prr(prr, chi2, a)

ResultRow_Cumulative(idx, drug, event, t, r, p) ==
    [idx |-> idx, drug |-> drug, event |-> event,
     a |-> t.a + idx, b |-> t.b, c |-> t.c, d |-> t.d,
     ror |-> r.ror, ror_ci_low |-> r.ci_low, ror_ci_high |-> r.ci_high,
     prr |-> p.prr, chi2 |-> p.chi2,
     is_signal |-> is_signal(r.ror, r.ci_low, p.prr, p.chi2, t.a)]

\* lines 183-196: the row appended for a pair; idx is its index label
ResultRow(idx, drug, event, t, r, p) ==
    [idx |-> idx, drug |-> drug, event |-> event,
     a |-> t.a, b |-> t.b, c |-> t.c, d |-> t.d,
     ror |-> r.ror, ror_ci_low |-> r.ci_low, ror_ci_high |-> r.ci_high,
     prr |-> p.prr, chi2 |-> p.chi2,
     is_signal |-> is_signal(r.ror, r.ci_low, p.prr, p.chi2, t.a)]

\* the control state after the body of the event loop at position ei
AfterEvent ==
    IF ei < Len(event_list) THEN ei' = ei + 1 /\ UNCHANGED <<pc, di>>
    ELSE /\ ei' = 1
         /\ di' = di + 1
         /\ pc' = IF di < Len(drug_list) THEN "drug" ELSE "sort"

\* lines 153-159: a drug with too few reports is skipped
SkipDrug ==
    /\ pc = "drug"
    /\ ~EnoughDrugReports(frame, drug_list[di])
    /\ di' = di + 1
    /\ pc' = IF di < Len(drug_list) THEN "drug" ELSE "sort"
    /\ UNCHANGED <<inputs, cases, metrics, history, strata, si, frame, ei,
                   results, ret, sresults, out, calls, subsets>>

\* lines 153-161: the drug passes and the event loop starts
EnterDrug ==
    /\ pc = "drug"
    /\ EnoughDrugReports(frame, drug_list[di])
    /\ ei' = 1
    /\ IF event_list # <<>> THEN pc' = "event" /\ di' = di
       ELSE /\ di' = di + 1
            /\ pc' = IF di < Len(drug_list) THEN "drug" ELSE "sort"
    /\ UNCHANGED <<inputs, cases, metrics, history, strata, si, frame,
                   results, ret, sresults, out, calls, subsets>>

\* lines 161-172: the pair fails a threshold
SkipPair ==
    /\ pc = "event"
    /\ LET drug == drug_list[di]
           event == event_list[ei]
           t == build_contingency_table(frame, drug, event)
       IN  /\ ~(PassesMinCount(t) /\ PassesMinDrugReports(t))
           /\ calls' = Append(calls, [drug |-> drug, event |-> event, t |-> t])
    /\ AfterEvent
    /\ UNCHANGED <<inputs, cases, metrics, history, strata, si, frame,
                   results, ret, sresults, out, subsets>>

\* lines 161-196: the pair passes and its row is appended
AppendPair ==
    /\ pc = "event"
    /\ LET drug == drug_list[di]
           event == event_list[ei]
           t == build_contingency_table(frame, drug, event)
           r == compute_ror(t.a, t.b, t.c, t.d)
           p == compute_prr(t.a, t.b, t.c, t.d)
       IN  /\ PassesMinCount(t) /\ PassesMinDrugReports(t)
           /\ ~r.raised /\ ~p.raised
           /\ calls' = Append(calls, [drug |-> drug, event |-> event, t |-> t])
           /\ results' = Append(results,
                                ResultRow(Len(results), drug, event, t, r, p))
    /\ AfterEvent
    /\ UNCHANGED <<inputs, cases, metrics, history, strata, si, frame, ret,
                   sresults, out, subsets>>

\* lines 175-176: a metric raises ZeroDivisionError, which nothing catches
RaisePair ==
    /\ pc = "event"
    /\ LET drug == drug_list[di]
           event == event_list[ei]
           t == build_contingency_table(frame, drug, event)
           r == compute_ror(t.a, t.b, t.c, t.d)
           p == compute_prr(t.a, t.b, t.c, t.d)
       IN  /\ PassesMinCount(t) /\ PassesMinDrugReports(t)
           /\ r.raised \/ p.raised
           /\ calls' = Append(calls, [drug |-> drug, event |-> event, t |-> t])
    /\ pc' = "raised"
    /\ UNCHANGED <<inputs, cases, metrics, history, strata, si, frame, di, ei,
                   results, ret, sresults, out, subsets>>

\* the sequences that hold every element of rows once
Arrangements(rows) ==
    {t \in [1..Len(rows) -> {rows[i] : i \in 1..Len(rows)}] :
        \A i, j \in 1..Len(rows) : i # j => t[i] # t[j]}

\* line 202: t is rows sorted by ror, descending, NaN last.  The default sort
\* kind is quicksort, which is not stable: rows of equal ror come in any order;
\* the NaN rows are appended in their original order.
IsSortValues(t, rows) ==
    /\ t \in Arrangements(rows)
    /\ \A i \in 1..(Len(t) - 1) :
          \/ FGe(t[i].ror, t[i + 1].ror)
          \/ IsNaN(t[i + 1].ror) /\ ~IsNaN(t[i].ror)
          \/ IsNaN(t[i].ror) /\ IsNaN(t[i + 1].ror) /\ t[i].idx < t[i + 1].idx

sort_values_Unsorted(rows) == {rows}

sort_values(rows) == {t \in Arrangements(rows) : IsSortValues(t, rows)}

\* the ror column of a table
RorColumn(rows) == [i \in 1..Len(rows) |-> rows[i].ror]

\* the order of a sorted table: the index labels of its rows
IndexOrder(t) == [i \in 1..Len(t) |-> t[i].idx]

SortOutcomes_Fresh(rows) == sort_values(rows)

\* line 202: the sort is an algorithm without random choices, so a ror
\* column that was sorted before comes out in the same order again
SortOutcomes(rows) ==
    {t \in sort_values(rows) :
        \A k \in 1..Len(sorted_as) :
            sorted_as[k].column = RorColumn(rows)
                => sorted_as[k].order = IndexOrder(t)}

\* lines 198-204: the table is sorted and returned
Sort ==
    /\ pc = "sort"
    /\ \E t \in SortOutcomes(results) :
          /\ ret' = t
          /\ sorted_as' =
                IF \E k \in 1..Len(sorted_as) :
                       sorted_as[k].column = RorColumn(results)
                THEN sorted_as
                ELSE Append(sorted_as, [column |-> RorColumn(results),
                                        order |-> IndexOrder(t)])
          /\ IF stratify_col = NA THEN out' = t /\ pc' = "done"
             ELSE out' = out /\ pc' = "collect"
    /\ UNCHANGED <<inputs, cases, metrics, run, first, strata, si, frame, di,
                   ei, results, sresults, calls, subsets>>

(***************************************************************************)
(* run_stratified_analysis                                                  *)
(***************************************************************************)
\* Series.dropna()
dropna(col) == SelectSeq(col, NotNa)

RECURSIVE unique(_)
\* Series.unique(): the distinct values in order of first appearance
unique(col) ==
    IF col = <<>> THEN <<>>
    ELSE LET before == unique(SubSeq(col, 1, Len(col) - 1))
             last == col[Len(col)]
         IN  IF \E i \in 1..Len(before) : before[i] = last THEN before
             ELSE Append(before, last)

StrataOf_NoUnique(fr) == dropna([i \in 1..Len(fr) |-> fr[i].stratum])

\* line 235: df[stratify_col].dropna().unique()
StrataOf(fr) == unique(dropna([i \in 1..Len(fr) |-> fr[i].stratum]))

StratumDf_NoFilter(fr, stratum) == fr

\* line 236: df[df[stratify_col] == stratum]
StratumDf(fr, stratum) == SelectSeq(fr, LAMBDA r : PdEq(r.stratum, stratum))

\* line 249: the stratum column is added to every row of the stratum's table
Tagged(table, stratum) ==
    [i \in 1..Len(table) |-> table[i] @@ [stratum |-> stratum]]

RECURSIVE Flatten(_)
Flatten(tables) ==
    IF tables = <<>> THEN <<>> ELSE Head(tables) \o Flatten(Tail(tables))

\* line 253: pd.concat(results, ignore_index=True)
concat(tables) ==
    LET rows == Flatten(tables)
    IN  [i \in 1..Len(rows) |-> [rows[i] EXCEPT !.idx = i - 1]]

\* lines 235-246: the next stratum's subset is handed to the orchestrator
StartStratum ==
    /\ pc = "stratum"
    /\ LET stratum_df == StratumDf(df, strata[si])
       IN  /\ frame' = stratum_df
           /\ subsets' = Append(subsets, [stratum |-> strata[si], df |-> stratum_df])
    /\ di' = 1 /\ ei' = 1 /\ results' = <<>> /\ ret' = <<>> /\ calls' = <<>>
    /\ pc' = IF drug_list # <<>> THEN "drug" ELSE "sort"
    /\ UNCHANGED <<inputs, cases, metrics, history, strata, si, sresults,
                   out>>

Collect_TagsRecords ==
    /\ pc = "collect"
    /\ df' = [i \in 1..Len(df) |->
                 IF df[i].stratum = NA
                 THEN [df[i] EXCEPT !.stratum = strata[si]] ELSE df[i]]
    /\ sresults' = IF Len(ret) > 0
                   THEN Append(sresults, Tagged(ret, strata[si]))
                   ELSE sresults
    /\ si' = si + 1
    /\ pc' = IF si < Len(strata) THEN "stratum" ELSE "concat"
    /\ UNCHANGED <<stratify_col, drug_list, event_list, min_count,
                   min_drug_reports, cases, metrics, history, strata, frame,
                   di, ei, results, ret, out, calls, subsets>>

Collect_KeepEmpty ==
    /\ pc = "collect"
    /\ sresults' = Append(sresults, Tagged(ret, strata[si]))
    /\ si' = si + 1
    /\ pc' = IF si < Len(strata) THEN "stratum" ELSE "concat"
    /\ UNCHANGED <<inputs, cases, metrics, history, strata, frame, di, ei,
                   results, ret, out, calls, subsets>>

\* lines 248-250: a non-empty stratum table is tagged and kept
Collect ==
    /\ pc = "collect"
    /\ sresults' = IF Len(ret) > 0
                   THEN Append(sresults, Tagged(ret, strata[si]))
                   ELSE sresults
    /\ si' = si + 1
    /\ pc' = IF si < Len(strata) THEN "stratum" ELSE "concat"
    /\ UNCHANGED <<inputs, cases, metrics, history, strata, frame, di, ei,
                   results, ret, out, calls, subsets>>

\* lines 252-255
Concat ==
    /\ pc = "concat"
    /\ out' = IF sresults # <<>> THEN concat(sresults) ELSE <<>>
    /\ pc' = "done"
    /\ UNCHANGED <<inputs, cases, metrics, history, strata, si, frame, di, ei,
                   results, ret, sresults, calls, subsets>>

(***************************************************************************)
(* The calls checked: record tables, lists and thresholds.                  *)
(***************************************************************************)
\* a table from the sequence of its rows' values; the index is 0, 1, 2, ...
MkFrame(rows) ==
    [i \in 1..Len(rows) |->
        [idx |-> i - 1, drug |-> rows[i][1], event |-> rows[i][2],
         stratum |-> rows[i][3]]]

RECURSIVE Repeat(_, _)
Repeat(x, n) == IF n = 0 THEN <<>> ELSE <<x>> \o Repeat(x, n - 1)

\* the sequences over 1..k of length at most n that never decrease
Ascending(k, n) ==
    UNION {{s \in [1..m -> 1..k] : \A i \in 1..(m - 1) : s[i] <= s[i + 1]} :
           m \in 0..n}

\* drug and event each present or missing, no stratum column in use
PlainKinds ==
    <<<<"A", "X", NA>>, <<"A", "Y", NA>>, <<"A", NA, NA>>,
      <<"B", "X", NA>>, <<"B", "Y", NA>>, <<"B", NA, NA>>,
      <<NA, "X", NA>>, <<NA, "Y", NA>>, <<NA, NA, NA>>>>

\* drug and event present, the stratum present or missing
StratumKinds ==
    <<<<"A", "X", "S1">>, <<"A", "X", "S2">>, <<"A", "X", NA>>,
      <<"A", "Y", "S1">>, <<"A", "Y", "S2">>, <<"A", "Y", NA>>,
      <<"B", "X", "S1">>, <<"B", "X", "S2">>, <<"B", "X", NA>>,
      <<"B", "Y", "S1">>, <<"B", "Y", "S2">>, <<"B", "Y", NA>>>>

\* every table of at most MaxRecords rows over the kinds, up to row order
FramesOver(kinds) ==
    {MkFrame([i \in 1..Len(s) |-> kinds[s[i]]]) :
        s \in Ascending(Len(kinds), MaxRecords)}

\* the tables of n[1] rows (A, X), n[2] rows (A, Y), n[3] rows (B, X) and
\* n[4] rows (B, Y), each count 0, 1 or MaxCell
BlockFrames ==
    {MkFrame(Repeat(PlainKinds[1], n[1]) \o Repeat(PlainKinds[2], n[2])
             \o Repeat(PlainKinds[4], n[3]) \o Repeat(PlainKinds[5], n[4])) :
        n \in [1..4 -> {0, 1, MaxCell}]}

\* the tables of tests/test_disproportionality.py and of the documentation
ExampleFrames ==
    {MkFrame(<<<<"A", "X", NA>>, <<"A", "X", NA>>, <<"A", "Y", NA>>,
               <<"B", "X", NA>>, <<"B", "Z", NA>>>>),
     MkFrame(<<<<"A", "X", NA>>, <<"A", "X", NA>>, <<"A", "Y", NA>>,
               <<"B", "X", NA>>, <<"B", "Z", NA>>, <<"B", "Z", NA>>>>),
     MkFrame(<<<<"A", "X", NA>>, <<"A", "X", NA>>, <<"A", NA, NA>>,
               <<"B", "X", NA>>, <<NA, "X", NA>>>>)}

\* two strata of complete records, the first with the lower odds ratio
\* for (A, X): cells (0, 1, 1, 0) and (1, 1, 1, 1), (1, 2, 2, 1) and
\* (2, 1, 1, 2)
StratifiedFrames ==
    {MkFrame(<<<<"A", "Y", "S1">>, <<"B", "X", "S1">>,
               <<"A", "X", "S2">>, <<"A", "Y", "S2">>,
               <<"B", "X", "S2">>, <<"B", "Y", "S2">>>>),
     MkFrame(Repeat(StratumKinds[1], 1) \o Repeat(StratumKinds[4], 2)
             \o Repeat(StratumKinds[7], 2) \o Repeat(StratumKinds[10], 1)
             \o Repeat(StratumKinds[2], 2) \o Repeat(StratumKinds[5], 1)
             \o Repeat(StratumKinds[8], 1) \o Repeat(StratumKinds[11], 2))}

DrugLists == {<<>>, <<"A">>, <<"A", "B">>, <<"B", "A">>, <<"A", "A">>}
EventLists == {<<>>, <<"X">>, <<"X", "Y">>}

\* (min_count, min_drug_reports); the defaults are (5, 10) and (3, 5)
SmallThresholds == {<<0, 0>>, <<1, 1>>, <<1, 2>>, <<2, 2>>}
BlockThresholds == {<<1, 1>>, <<3, 5>>, <<5, 10>>}
StratumThresholds == {<<0, 0>>, <<1, 1>>, <<1, 2>>}

Calls ==
    (((FramesOver(PlainKinds) \X {NA}) \X SmallThresholds)
     \cup (((BlockFrames \cup ExampleFrames) \X {NA}) \X BlockThresholds)
     \cup (((FramesOver(StratumKinds) \cup StratifiedFrames) \X {"stratum"})
           \X StratumThresholds))

Init ==
    /\ \E call \in Calls :
          /\ df = call[1][1]
          /\ stratify_col = call[1][2]
          /\ min_count = call[2][1]
          /\ min_drug_reports = call[2][2]
    /\ drug_list \in DrugLists
    /\ event_list \in EventLists
    /\ strata = IF stratify_col = NA THEN <<>> ELSE StrataOf(df)
    /\ frame = IF stratify_col = NA THEN df ELSE <<>>
    /\ pc = IF stratify_col = NA
            THEN (IF drug_list # <<>> THEN "drug" ELSE "sort")
            ELSE (IF strata # <<>> THEN "stratum" ELSE "concat")
    /\ si = 1 /\ di = 1 /\ ei = 1
    /\ results = <<>> /\ ret = <<>> /\ sresults = <<>> /\ out = <<>>
    /\ calls = <<>> /\ subsets = <<>>
    /\ cells = <<>> /\ ror_out = <<>> /\ prr_out = <<>>
    /\ run = 1 /\ first = <<>> /\ sorted_as = <<>>
    /\ demo_df = <<>> /\ deduped = <<>>

Next ==
    \/ SkipDrug \/ EnterDrug \/ SkipPair \/ AppendPair \/ RaisePair \/ Sort
    \/ StartStratum \/ Collect \/ Concat

Spec == Init /\ [][Next]_vars

(***************************************************************************)
(* run_disproportionality_analysis called twice with the same arguments.   *)
(***************************************************************************)
\* the first call has returned out; the same call is made again
Rerun ==
    /\ pc = "done" /\ stratify_col = NA /\ run = 1
    /\ run' = 2
    /\ first' = out
    /\ di' = 1 /\ ei' = 1 /\ results' = <<>> /\ ret' = <<>> /\ calls' = <<>>
    /\ out' = <<>>
    /\ pc' = IF drug_list # <<>> THEN "drug" ELSE "sort"
    /\ UNCHANGED <<inputs, cases, metrics, sorted_as, strata, si, frame,
                   sresults, subsets>>

InitTwice == Init /\ stratify_col = NA

NextTwice ==
    \/ SkipDrug \/ EnterDrug \/ SkipPair \/ AppendPair \/ RaisePair \/ Sort
    \/ Rerun

SpecTwice == InitTwice /\ [][NextTwice]_vars

(***************************************************************************)
(* Direct calls of the two metric functions, on every tuple of small      *)
(* cells and on the tuples of tests/test_disproportionality.py.           *)
(***************************************************************************)
TestCells ==
    {<<50, 950, 100, 9900>>, <<0, 100, 50, 1000>>, <<10, 0, 50, 1000>>,
     <<10, 100, 0, 1000>>, <<50, 50, 50, 50>>}

MetricCells ==
    {<<a, b, c, d>> : a \in 0..MaxCell, b \in 0..MaxCell,
                      c \in 0..MaxCell, d \in 0..MaxCell} \cup TestCells

MetricsInit ==
    /\ cells \in MetricCells
    /\ ror_out = <<>> /\ prr_out = <<>>
    /\ pc = "metrics"
    /\ df = <<>> /\ stratify_col = NA
    /\ drug_list = <<>> /\ event_list = <<>>
    /\ min_count = 0 /\ min_drug_reports = 0
    /\ strata = <<>> /\ frame = <<>>
    /\ si = 1 /\ di = 1 /\ ei = 1
    /\ results = <<>> /\ ret = <<>> /\ sresults = <<>> /\ out = <<>>
    /\ calls = <<>> /\ subsets = <<>>
    /\ run = 1 /\ first = <<>> /\ sorted_as = <<>>
    /\ demo_df = <<>> /\ deduped = <<>>

CallRor ==
    /\ pc = "metrics" /\ ror_out = <<>>
    /\ ror_out' = <<compute_ror(cells[1], cells[2], cells[3], cells[4])>>
    /\ UNCHANGED <<inputs, cases, history, cells, prr_out, pc, strata, si,
                   frame, di, ei, results, ret, sresults, out, calls,
                   subsets>>

CallPrr ==
    /\ pc = "metrics" /\ prr_out = <<>>
    /\ prr_out' = <<compute_prr(cells[1], cells[2], cells[3], cells[4])>>
    /\ UNCHANGED <<inputs, cases, history, cells, ror_out, pc, strata, si,
                   frame, di, ei, results, ret, sresults, out, calls,
                   subsets>>

MetricsNext == CallRor \/ CallPrr

SpecMetrics == MetricsInit /\ [][MetricsNext]_vars

(***************************************************************************)
(* dedupe_cases (src/data_ingest/dedupe_cases.py), on a demographics table *)
(* with the columns caseid and fda_dt.                                     *)
(***************************************************************************)
\* datetimes: NaT, or a day
NaT == [nat |-> TRUE, day |-> 0]
Timestamp(day) == [nat |-> FALSE, day |-> day]

\* line 38: pd.to_datetime(column, errors='coerce'), value by value
to_datetime(x) ==
    CASE x = "2020-01-01" -> Timestamp(1)
      [] x = "2020-01-15" -> Timestamp(15)
      [] x = "2020-02-01" -> Timestamp(32)
      [] OTHER -> NaT

DateBefore_Ascending(x, y) == ~x.nat /\ (y.nat \/ x.day < y.day)

\* line 48, ascending=False on the date: later dates first, NaT last
DateBefore(x, y) == ~x.nat /\ (y.nat \/ x.day > y.day)

\* line 48: the key [caseid, date] of r1 sorts before the key of r2
KeyBefore(r1, r2) ==
    \/ r1.caseid < r2.caseid
    \/ r1.caseid = r2.caseid /\ DateBefore(r1.fda_dt, r2.fda_dt)

\* the place of row i after the sort; rows of equal keys keep their order
Rank(rows, i) ==
    1 + Cardinality({j \in 1..Len(rows) :
            \/ KeyBefore(rows[j], rows[i])
            \/ ~KeyBefore(rows[i], rows[j]) /\ j < i})

\* line 48: demo_df.sort_values([caseid_col, date_col], ascending=[True, False])
sort_by_case_and_date(rows) ==
    [k \in 1..Len(rows) |->
        rows[CHOOSE i \in 1..Len(rows) : Rank(rows, i) = k]]

\* line 51: drop_duplicates(subset=[caseid_col], keep='first')
drop_duplicates(rows) ==
    LET keep == {i \in 1..Len(rows) :
                    \A j \in 1..(i - 1) : rows[j].caseid # rows[i].caseid}
    IN  [k \in 1..Cardinality(keep) |->
            rows[CHOOSE i \in keep :
                    Cardinality({j \in keep : j <= i}) = k]]

\* line 53: reset_index(drop=True)
reset_index(rows) == [i \in 1..Len(rows) |-> [rows[i] EXCEPT !.idx = i - 1]]

\* lines 37-38: the date column of the caller's table is replaced
ConvertDates(rows) ==
    [i \in 1..Len(rows) |-> [rows[i] EXCEPT !.fda_dt = to_datetime(@)]]

dedupe_cases(rows) ==
    reset_index(drop_duplicates(sort_by_case_and_date(ConvertDates(rows))))

CaseIds == {1, 2, 3}
RawDates == {"2020-01-01", "2020-01-15", "2020-02-01", "not a date"}

\* a demographics table from its rows' (caseid, fda_dt); the index is 0, 1, ...
MkDemo(rows) ==
    [i \in 1..Len(rows) |->
        [idx |-> i - 1, caseid |-> rows[i][1], fda_dt |-> rows[i][2]]]

\* the table of test_dedupe_cases
TestDemo ==
    MkDemo(<<<<1, "2020-01-01">>, <<1, "2020-02-01">>, <<2, "2020-01-01">>,
             <<2, "2020-01-15">>, <<3, "2020-01-01">>>>)

DemoFrames ==
    UNION {{MkDemo(rows) : rows \in [1..m -> CaseIds \X RawDates]} :
           m \in 0..MaxRecords} \cup {TestDemo}

DedupeInit ==
    /\ demo_df \in DemoFrames
    /\ deduped = <<>>
    /\ pc = "dedupe"
    /\ df = <<>> /\ stratify_col = NA
    /\ drug_list = <<>> /\ event_list = <<>>
    /\ min_count = 0 /\ min_drug_reports = 0
    /\ strata = <<>> /\ frame = <<>>
    /\ si = 1 /\ di = 1 /\ ei = 1
    /\ results = <<>> /\ ret = <<>> /\ sresults = <<>> /\ out = <<>>
    /\ calls = <<>> /\ subsets = <<>>
    /\ cells = <<>> /\ ror_out = <<>> /\ prr_out = <<>>
    /\ run = 1 /\ first = <<>> /\ sorted_as = <<>>

\* lines 36-53
Dedupe ==
    /\ pc = "dedupe" /\ deduped = <<>>
    /\ demo_df' = ConvertDates(demo_df)
    /\ deduped' = <<dedupe_cases(demo_df)>>
    /\ UNCHANGED <<inputs, metrics, history, pc, strata, si, frame, di, ei,
                   results, ret, sresults, out, calls, subsets>>

DedupeNext == Dedupe

SpecDedupe == DedupeInit /\ [][DedupeNext]_vars

(***************************************************************************)
(* Properties.                                                              *)
(***************************************************************************)
\* the running orchestrator call has returned its table, ret
Returned == pc = "collect" \/ (pc = "done" /\ stratify_col = NA)

\* the number of rows of table fr with drug dv, counted on the index
DrugCount(fr, dv) == Cardinality({i \in 1..Len(fr) : fr[i].drug = dv})

\* the four cells for target (dv, ev), counted on the index as documented
CountedCells(fr, dv, ev) ==
    [a |-> Cardinality({i \in 1..Len(fr) :
              fr[i].drug = dv /\ fr[i].event = ev}),
     b |-> Cardinality({i \in 1..Len(fr) :
              fr[i].drug = dv /\ fr[i].event # NA /\ fr[i].event # ev}),
     c |-> Cardinality({i \in 1..Len(fr) :
              fr[i].drug # NA /\ fr[i].drug # dv /\ fr[i].event = ev}),
     d |-> Cardinality({i \in 1..Len(fr) :
              /\ fr[i].drug # NA /\ fr[i].drug # dv
              /\ fr[i].event # NA /\ fr[i].event # ev})]

Cells(row) == [a |-> row.a, b |-> row.b, c |-> row.c, d |-> row.d]

SpecExample ==
    MkFrame(<<<<"A", "X", NA>>, <<"A", "X", NA>>, <<"A", "Y", NA>>,
              <<"B", "X", NA>>, <<"B", "Z", NA>>>>)

\* C1: every table build_contingency_table returns holds exactly the four
\* documented counts of the table it was given, rows with a missing drug or a
\* missing event in no cell; on drug=[A,A,A,B,B], event=[X,X,Y,X,Z] the
\* target (A, X) gives (2, 1, 1, 1).
C1_ExactCells ==
    \A k \in 1..Len(calls) :
        /\ calls[k].t = CountedCells(frame, calls[k].drug, calls[k].event)
        /\ (frame = SpecExample /\ calls[k].drug = "A" /\ calls[k].event = "X")
              => calls[k].t = [a |-> 2, b |-> 1, c |-> 1, d |-> 1]

\* C1 witness: a table was built on a record set where some row with the
\* target drug has a missing event and some row with the target event has a
\* missing drug, and the four cells leave those rows out.
C1_Witness_MissingExcluded ==
    /\ calls # <<>>
    /\ \E i, j \in 1..Len(frame) :
          /\ frame[i].drug = calls[1].drug /\ frame[i].event = NA
          /\ frame[j].drug = NA /\ frame[j].event = calls[1].event
    /\ calls[1].t.a > 0 /\ calls[1].t.c > 0
    /\ calls[1].t.a + calls[1].t.b + calls[1].t.c + calls[1].t.d < Len(frame)

\* C2: is_signal of every returned row is exactly
\* (ror > 2 and ror_ci_low > 1) or (prr > 2 and chi2 > 4 and a >= 3)
\* on the row's own values.
C2_SignalRule ==
    Returned =>
        \A k \in 1..Len(ret) :
            ret[k].is_signal <=>
                \/ FGt(ret[k].ror, Rat(2, 1)) /\ FGt(ret[k].ror_ci_low, Rat(1, 1))
                \/ /\ FGt(ret[k].prr, Rat(2, 1))
                   /\ FGt(ret[k].chi2, Rat(4, 1))
                   /\ ret[k].a >= 3

\* C2 witness: a returned table with a row that is a signal by the ROR rule
\* and a row with a positive ror that is no signal.
C2_Witness_SignalAndNot ==
    /\ Returned
    /\ \E k \in 1..Len(ret) :
          /\ ret[k].is_signal
          /\ FGt(ret[k].ror, Rat(2, 1)) /\ FGt(ret[k].ror_ci_low, Rat(1, 1))
    /\ \E k \in 1..Len(ret) : ~ret[k].is_signal /\ FGt(ret[k].ror, Zero)

\* C3: every row of a returned table has a >= min_count.
C3_MinCount ==
    Returned => \A k \in 1..Len(ret) : ret[k].a >= min_count

\* C3 witness: a returned table with a row, while a pair of the lists whose
\* table was built has a below min_count.
C3_Witness_PairBelowMinCount ==
    /\ Returned /\ ret # <<>>
    /\ \E k \in 1..Len(calls) : calls[k].t.a < min_count

\* C4: every returned row has a + b >= min_drug_reports and its drug has at
\* least min_drug_reports records; no contingency table is ever built for a
\* drug with fewer records, and such a drug has no row.
C4_MinDrugReports ==
    /\ \A k \in 1..Len(calls) :
          DrugCount(frame, calls[k].drug) >= min_drug_reports
    /\ Returned =>
          \A k \in 1..Len(ret) :
              /\ ret[k].a + ret[k].b >= min_drug_reports
              /\ DrugCount(frame, ret[k].drug) >= min_drug_reports

\* C4 witness: a returned table with a row, one drug of the list skipped for
\* having too few records although it has some.
C4_Witness_DrugSkipped ==
    /\ Returned /\ ret # <<>>
    /\ \E k \in 1..Len(drug_list) :
          /\ DrugCount(frame, drug_list[k]) > 0
          /\ DrugCount(frame, drug_list[k]) < min_drug_reports

\* the pairs of drug_list x event_list that pass the three filters
PassingPairs ==
    {pr \in {drug_list[i] : i \in 1..Len(drug_list)}
            \X {event_list[j] : j \in 1..Len(event_list)} :
        LET t == CountedCells(frame, pr[1], pr[2])
        IN  /\ DrugCount(frame, pr[1]) >= min_drug_reports
            /\ t.a >= min_count
            /\ t.a + t.b >= min_drug_reports}

DuplicateFree(list) ==
    \A i, j \in 1..Len(list) : i # j => list[i] # list[j]

\* C5: the pairs of a returned table are exactly the pairs of
\* drug_list x event_list that pass the filters, and with duplicate-free lists
\* no pair has two rows.
C5_ExactPairs ==
    Returned =>
        /\ {<<ret[k].drug, ret[k].event>> : k \in 1..Len(ret)} = PassingPairs
        /\ (DuplicateFree(drug_list) /\ DuplicateFree(event_list)) =>
              \A i, j \in 1..Len(ret) :
                  i # j => <<ret[i].drug, ret[i].event>> # <<ret[j].drug, ret[j].event>>

\* C5 witness: a returned table of two rows while the record set holds a pair
\* that passes the count filters with a drug that is not in drug_list and
\* another with an event that is not in event_list.
C5_Witness_ValuesOutsideLists ==
    /\ Returned /\ Len(ret) = 2
    /\ \E i \in 1..Len(frame) :
          /\ frame[i].drug # NA
          /\ \A k \in 1..Len(drug_list) : drug_list[k] # frame[i].drug
    /\ \E i \in 1..Len(frame) :
          /\ frame[i].event # NA
          /\ \A k \in 1..Len(event_list) : event_list[k] # frame[i].event
    /\ Cardinality(PassingPairs) < Len(drug_list) * Len(event_list)

\* C6: no call ends in an exception: a pair with a degenerate table gets a
\* row with NaN and the batch completes.
C6_NeverRaises == pc # "raised"

\* C7 as stated: in a returned table every row's ror is >= the next row's.
C7_SortedDescending ==
    Returned => \A k \in 1..(Len(ret) - 1) : FGe(ret[k].ror, ret[k + 1].ror)

\* C7, amended: in a returned table the rows with a ror that is not NaN come
\* first, in descending order of ror, and the rows with a NaN ror come last.
C7_SortedNaNLast ==
    Returned =>
        \A i, j \in 1..Len(ret) :
            i < j =>
                /\ IsNaN(ret[i].ror) => IsNaN(ret[j].ror)
                /\ (~IsNaN(ret[i].ror) /\ ~IsNaN(ret[j].ror)) =>
                      ~FGt(ret[j].ror, ret[i].ror)

\* C7 witness: the sort moved rows: the returned table differs from the list
\* in insertion order and holds a NaN ror after a ror that is a number.
C7_Witness_Reordered ==
    /\ Returned /\ ret # results
    /\ \E i, j \in 1..Len(ret) : i < j /\ ~IsNaN(ret[i].ror) /\ IsNaN(ret[j].ror)

\* C8 as stated: no row of a returned table has a NaN ror.
C8_NoNaNRor ==
    Returned => \A k \in 1..Len(ret) : ~IsNaN(ret[k].ror)

\* C8, amended: a row of a returned table has a NaN ror exactly when its b or
\* its c is 0; the count filters let such pairs through.
C8_NaNIffZeroCell ==
    Returned =>
        \A k \in 1..Len(ret) :
            IsNaN(ret[k].ror) <=> (ret[k].b = 0 \/ ret[k].c = 0)

\* C8 witness: under the default thresholds (5, 10) a returned table holds a
\* row with a NaN ror.
C8_Witness_NaNRowReturned ==
    /\ Returned /\ min_count = 5 /\ min_drug_reports = 10
    /\ \E k \in 1..Len(ret) : IsNaN(ret[k].ror)

\* the four cells for (dv, ev) counted on the rows of fr in stratum s
StratumCells(fr, s, dv, ev) ==
    [a |-> Cardinality({i \in 1..Len(fr) :
              fr[i].stratum = s /\ fr[i].drug = dv /\ fr[i].event = ev}),
     b |-> Cardinality({i \in 1..Len(fr) :
              /\ fr[i].stratum = s /\ fr[i].drug = dv
              /\ fr[i].event # NA /\ fr[i].event # ev}),
     c |-> Cardinality({i \in 1..Len(fr) :
              /\ fr[i].stratum = s /\ fr[i].drug # NA /\ fr[i].drug # dv
              /\ fr[i].event = ev}),
     d |-> Cardinality({i \in 1..Len(fr) :
              /\ fr[i].stratum = s /\ fr[i].drug # NA /\ fr[i].drug # dv
              /\ fr[i].event # NA /\ fr[i].event # ev})]

\* C9: every row tagged with stratum S, in a kept stratum table and in the
\* final table, has the four cells counted on exactly the records of df
\* whose stratum is S.
C9_NoCrossStratumLeak ==
    /\ \A n \in 1..Len(sresults) : \A k \in 1..Len(sresults[n]) :
          LET row == sresults[n][k]
          IN  row.stratum # NA
              /\ Cells(row) = StratumCells(df, row.stratum, row.drug, row.event)
    /\ (stratify_col # NA /\ pc = "done") =>
          \A k \in 1..Len(out) :
              Cells(out[k]) =
                  StratumCells(df, out[k].stratum, out[k].drug, out[k].event)

\* C9 witness: the final table holds rows of two strata for the same pair,
\* and a record with a missing stratum has that pair.
C9_Witness_TwoStrataRows ==
    /\ stratify_col # NA /\ pc = "done"
    /\ \E i, j \in 1..Len(out) :
          /\ out[i].stratum # out[j].stratum
          /\ out[i].drug = out[j].drug /\ out[i].event = out[j].event
          /\ \E n \in 1..Len(df) :
                /\ df[n].stratum = NA
                /\ df[n].drug = out[i].drug /\ df[n].event = out[i].event

IdxSet(fr) == {fr[i].idx : i \in 1..Len(fr)}

RECURSIVE SumA(_, _, _)
\* the sum over the subsets of the a-count for (dv, ev)
SumA(subs, dv, ev) ==
    IF subs = <<>> THEN 0
    ELSE CellA(Head(subs).df, dv, ev) + SumA(Tail(subs), dv, ev)

\* C10: the stratum subsets are made of rows of df, are pairwise disjoint
\* and, once every stratum was run, cover exactly the rows with a stratum
\* value; for every pair the a-counts of the subsets sum to at most the
\* a-count on df.
C10_Partition ==
    /\ \A i \in 1..Len(subsets) :
          \A k \in 1..Len(subsets[i].df) :
              \E n \in 1..Len(df) : df[n] = subsets[i].df[k]
    /\ \A i, j \in 1..Len(subsets) :
          i # j => IdxSet(subsets[i].df) \cap IdxSet(subsets[j].df) = {}
    /\ (stratify_col # NA /\ pc \in {"concat", "done"}) =>
          UNION {IdxSet(subsets[i].df) : i \in 1..Len(subsets)}
              = {df[n].idx : n \in {m \in 1..Len(df) : df[m].stratum # NA}}
    /\ \A dv \in Drugs : \A ev \in Events :
          SumA(subsets, dv, ev) <= CellA(df, dv, ev)

\* C10 witness: two strata were run, a record has no stratum value, and for
\* its pair the subsets' a-counts sum to less than the a-count on df.
C10_Witness_StrictSum ==
    /\ stratify_col # NA /\ pc = "done" /\ Len(subsets) = 2
    /\ \E n \in 1..Len(df) :
          /\ df[n].stratum = NA
          /\ SumA(subsets, df[n].drug, df[n].event) > 0
          /\ SumA(subsets, df[n].drug, df[n].event)
                < CellA(df, df[n].drug, df[n].event)

(***************************************************************************)
(* Properties of the metric functions, under SpecMetrics.                  *)
(***************************************************************************)
\* compute_ror has been called on cells, and this is what it gave
RorCalled == Len(ror_out) = 1
PrrCalled == Len(prr_out) = 1
AllPositive == cells[1] > 0 /\ cells[2] > 0 /\ cells[3] > 0 /\ cells[4] > 0

\* C11: for a, b, c, d > 0 compute_ror returns ROR equal to (a*d)/(b*c)
\* with ror_ci_low < ROR < ror_ci_high; (50, 950, 100, 9900) gives ROR
\* within 0.01 of 5.21 and ror_ci_low > 1.0.
C11_RorPositiveCells ==
    (RorCalled /\ AllPositive) =>
        LET r == ror_out[1]
        IN  /\ ~r.raised
            /\ ~IsNaN(r.ror)
            /\ r.ror.n * (cells[2] * cells[3]) = r.ror.d * (cells[1] * cells[4])
            /\ FGt(r.ror, r.ci_low)
            /\ FGt(r.ci_high, r.ror)
            /\ (cells = <<50, 950, 100, 9900>> =>
                    /\ FGt(r.ror, Rat(520, 100))
                    /\ FGt(Rat(522, 100), r.ror)
                    /\ FGt(r.ci_low, Rat(1, 1)))

C11_Witness_KnownValues ==
    /\ RorCalled /\ cells = <<50, 950, 100, 9900>>
    /\ ~ror_out[1].raised /\ FGt(ror_out[1].ci_low, Rat(1, 1))

\* C12: compute_ror returns (NaN, NaN, NaN) whenever b == 0 or c == 0, for
\* every a and d; the guard comes before the a == 0 rule, so
\* compute_ror(0, 0, c, d) and compute_ror(0, b, 0, d) are NaN, not zero.
C12_RorNaNGuardFirst ==
    (RorCalled /\ (cells[2] = 0 \/ cells[3] = 0)) =>
        /\ ~ror_out[1].raised
        /\ IsNaN(ror_out[1].ror)
        /\ IsNaN(ror_out[1].ci_low)
        /\ IsNaN(ror_out[1].ci_high)

C12_Witness_AZeroAndBZero ==
    /\ RorCalled /\ cells[1] = 0 /\ cells[2] = 0 /\ cells[3] > 0
    /\ IsNaN(ror_out[1].ror)

C14_RorNaNWhenAZero ==
    (RorCalled /\ cells[1] = 0 /\ cells[2] > 0 /\ cells[3] > 0 /\ cells[4] > 0)
        => IsNaN(ror_out[1].ror)

\* C15: compute_ror(a, b, c, 0) with a, b, c > 0 returns normally and its
\* confidence bounds are NaN.
C15_RorDZeroNaNBounds ==
    (RorCalled /\ cells[1] > 0 /\ cells[2] > 0 /\ cells[3] > 0 /\ cells[4] = 0)
        => /\ ~ror_out[1].raised
           /\ IsNaN(ror_out[1].ci_low)
           /\ IsNaN(ror_out[1].ci_high)

\* C16: compute_prr returns (NaN, NaN) whenever a + b == 0 or c + d == 0,
\* and otherwise (0.0, 0.0) whenever a == 0; the NaN guard comes first, so
\* a == 0 together with c + d == 0 yields NaN.
C16_PrrGuards ==
    PrrCalled =>
        /\ (cells[1] + cells[2] = 0 \/ cells[3] + cells[4] = 0)
               => prr_out[1] = PrrResult(NaN, NaN)
        /\ (cells[1] + cells[2] > 0 /\ cells[3] + cells[4] > 0 /\ cells[1] = 0)
               => prr_out[1] = PrrResult(Zero, Zero)

C16_Witness_AZeroNoOtherReports ==
    /\ PrrCalled /\ cells[1] = 0 /\ cells[2] > 0 /\ cells[3] + cells[4] = 0
    /\ IsNaN(prr_out[1].prr) /\ IsNaN(prr_out[1].chi2)

\* Pearson's chi-square of a 2x2 table with positive margins, in closed
\* form: n (ad - bc)^2 / ((a+b)(c+d)(a+c)(b+d))
PearsonChi2(a, b, c, d) ==
    LET det == Abs(a * d - b * c)
    IN  FMul(FMul(Rat(a + b + c + d, a + b), Rat(det, c + d)),
             FMul(Rat(det, a + c), Rat(1, b + d)))

C18_MetricsNeverRaise ==
    /\ RorCalled => ~ror_out[1].raised
    /\ PrrCalled =>
          /\ ~prr_out[1].raised
          /\ (cells[1] > 0 /\ cells[3] = 0 /\ cells[4] > 0)
                => IsNaN(prr_out[1].prr)

\* C26: whenever a*d == b*c with all four cells positive, compute_ror
\* returns ROR equal to 1.0 with ror_ci_low < 1.0 < ror_ci_high, so the ROR
\* sub-rule of the signal decision does not fire for that table.
C26_RorNullTable ==
    (RorCalled /\ AllPositive /\ cells[1] * cells[4] = cells[2] * cells[3]) =>
        LET r == ror_out[1]
        IN  /\ ~r.raised
            /\ r.ror = Rat(1, 1)
            /\ FGt(Rat(1, 1), r.ci_low)
            /\ FGt(r.ci_high, Rat(1, 1))
            /\ ~is_signal_ror(r.ror, r.ci_low)

C26_Witness_EqualCells ==
    /\ RorCalled /\ cells = <<50, 50, 50, 50>>
    /\ ror_out[1].ror = Rat(1, 1) /\ FGt(ror_out[1].ci_low, Zero)

(***************************************************************************)
(* Further properties of the orchestrators, under Spec.                     *)
(***************************************************************************)
\* the rows of table fr whose drug and event are both present
CompleteRows(fr) ==
    {i \in 1..Len(fr) : fr[i].drug # NA /\ fr[i].event # NA}

\* C19: the four counts build_contingency_table returns are non-negative
\* integers whose sum a + b + c + d is the number of records with drug and
\* event both non-missing, hence at most the number of records.
C19_CellsSumToCompleteRows ==
    \A k \in 1..Len(calls) :
        LET t == calls[k].t
        IN  /\ t.a \in Nat /\ t.b \in Nat /\ t.c \in Nat /\ t.d \in Nat
            /\ t.a + t.b + t.c + t.d = Cardinality(CompleteRows(frame))
            /\ t.a + t.b + t.c + t.d <= Len(frame)

\* C19 witness: a table was built on a record set with an incomplete row
\* (missing drug and a non-target event), and the cells count the others.
C19_Witness_IncompleteRowLeftOut ==
    /\ calls # <<>>
    /\ \E i \in 1..Len(frame) :
          /\ frame[i].drug = NA
          /\ frame[i].event # NA /\ frame[i].event # calls[1].event
    /\ calls[1].t.a + calls[1].t.b + calls[1].t.c + calls[1].t.d > 0
    /\ calls[1].t.a + calls[1].t.b + calls[1].t.c + calls[1].t.d < Len(frame)

\* the non-missing values of the stratification column of df
StratumValues == {df[i].stratum : i \in 1..Len(df)} \ {NA}

\* some pair of drug_list x event_list passes the three filters on the
\* records of df whose stratum is s
StratumHasRow(s) ==
    \E i \in 1..Len(drug_list) : \E j \in 1..Len(event_list) :
        LET t == StratumCells(df, s, drug_list[i], event_list[j])
            n == Cardinality({k \in 1..Len(df) :
                     df[k].stratum = s /\ df[k].drug = drug_list[i]})
        IN  /\ n >= min_drug_reports
            /\ t.a >= min_count
            /\ t.a + t.b >= min_drug_reports

\* C20: the stratum labels in the output of run_stratified_analysis are
\* exactly the non-missing stratum values whose analysis produced a row; a
\* stratum without rows contributes no block and no label, and when no
\* stratum produces a row the result is an empty table.
C20_LabelsOfProducingStrata ==
    /\ \A n \in 1..Len(sresults) : sresults[n] # <<>>
    /\ (stratify_col # NA /\ pc = "done") =>
          /\ {out[k].stratum : k \in 1..Len(out)}
                = {s \in StratumValues : StratumHasRow(s)}
          /\ Len(out) = Len(Flatten(sresults))
          /\ Len(sresults) = Cardinality({s \in StratumValues : StratumHasRow(s)})
          /\ (\A s \in StratumValues : ~StratumHasRow(s)) => out = <<>>

\* C20 witness: a finished stratified run over two strata, one of which
\* produced rows and is in the output, the other produced none and is not.
C20_Witness_OneStratumSilent ==
    /\ stratify_col # NA /\ pc = "done" /\ out # <<>>
    /\ Cardinality(StratumValues) = 2
    /\ \E s \in StratumValues : \A k \in 1..Len(out) : out[k].stratum # s

\* C21: the table returned by run_stratified_analysis is sorted by ror in
\* descending order across all of its rows, across strata and not only
\* within each stratum's block (stated on the rows whose ror is a number).
C21_StratifiedSortedDescending ==
    (stratify_col # NA /\ pc = "done") =>
        \A i, j \in 1..Len(out) :
            (i < j /\ ~IsNaN(out[i].ror) /\ ~IsNaN(out[j].ror))
                => FGe(out[i].ror, out[j].ror)

\* C23: build_contingency_table, run_disproportionality_analysis and
\* run_stratified_analysis leave the caller's record table unchanged: no
\* step of any of them changes its rows, columns or values; the stratum
\* label is written to the result rows only.
C23_RecordsUnchanged == [][df' = df]_vars

\* C23 witness: a stratified run has finished with labelled result rows
\* while the record table has a row without a stratum value.
C23_Witness_LabelOnResultsOnly ==
    /\ stratify_col # NA /\ pc = "done" /\ out # <<>>
    /\ \A k \in 1..Len(out) : out[k].stratum \in Strata
    /\ calls # <<>>
    /\ \E i \in 1..Len(df) : df[i].stratum = NA

RowValues(row) ==
    [drug |-> row.drug, event |-> row.event,
     a |-> row.a, b |-> row.b, c |-> row.c, d |-> row.d,
     ror |-> row.ror, ror_ci_low |-> row.ror_ci_low,
     ror_ci_high |-> row.ror_ci_high, prr |-> row.prr, chi2 |-> row.chi2,
     is_signal |-> row.is_signal]

\* the row of the pair (dv, ev) on table fr, from nothing but fr, dv and ev
PairValues(fr, dv, ev) ==
    LET t == CountedCells(fr, dv, ev)
        r == compute_ror(t.a, t.b, t.c, t.d)
        p == compute_prr(t.a, t.b, t.c, t.d)
    IN  [drug |-> dv, event |-> ev, a |-> t.a, b |-> t.b, c |-> t.c, d |-> t.d,
         ror |-> r.ror, ror_ci_low |-> r.ci_low, ror_ci_high |-> r.ci_high,
         prr |-> p.prr, chi2 |-> p.chi2,
         is_signal |-> \/ FGt(r.ror, Rat(2, 1)) /\ FGt(r.ci_low, Rat(1, 1))
                       \/ FGt(p.prr, Rat(2, 1)) /\ FGt(p.chi2, Rat(4, 1))
                          /\ t.a >= 3]

C27_TiesKeepInsertionOrder ==
    (stratify_col = NA /\ pc = "done") =>
        \A i, j \in 1..Len(out) :
            (i < j /\ ~IsNaN(out[i].ror) /\ out[i].ror = out[j].ror)
                => out[i].idx < out[j].idx

\* the pairs of drug_list x event_list that pass the two pair-level
\* filters, the drug-level check left out
PairLevelPassing ==
    {pr \in {drug_list[i] : i \in 1..Len(drug_list)}
            \X {event_list[j] : j \in 1..Len(event_list)} :
        LET t == CountedCells(frame, pr[1], pr[2])
        IN  t.a >= min_count /\ t.a + t.b >= min_drug_reports}

\* C29: the drug-level check of run_disproportionality_analysis is
\* redundant with the pair-level filter: the number of records with a drug
\* is >= a + b for every event, a skipped drug has no pair that passes
\* a + b >= min_drug_reports, and the returned table is the one obtained
\* without the drug-level check.
C29_DrugCheckRedundant ==
    /\ \A k \in 1..Len(calls) :
          Len(DrugCases(frame, calls[k].drug)) >= calls[k].t.a + calls[k].t.b
    /\ (pc = "drug" /\ ~EnoughDrugReports(frame, drug_list[di])) =>
          \A ev \in Events :
              LET t == build_contingency_table(frame, drug_list[di], ev)
              IN  /\ Len(DrugCases(frame, drug_list[di])) >= t.a + t.b
                  /\ t.a + t.b < min_drug_reports
    /\ Returned =>
          {<<ret[k].drug, ret[k].event>> : k \in 1..Len(ret)} = PairLevelPassing

\* C29 witness: a table with rows was returned after a drug was skipped for
\* too few records although it co-occurs often enough with the first event
\* of the list.
C29_Witness_SkippedDrugWithPair ==
    /\ Returned /\ ret # <<>> /\ event_list # <<>>
    /\ \E k \in 1..Len(drug_list) :
          /\ ~EnoughDrugReports(frame, drug_list[k])
          /\ CellA(frame, drug_list[k], event_list[1]) >= min_count
          /\ CellA(frame, drug_list[k], event_list[1]) > 0

\* C30: for a row whose ror is NaN (b == 0 or c == 0) the ROR sub-rule is
\* false, so is_signal holds exactly when prr > 2.0, chi2 > 4.0 and a >= 3;
\* a NaN prr or chi2 makes the row no signal.
C30_NaNRorSignalOnlyByPrr ==
    \A k \in 1..Len(results) :
        LET row == results[k]
        IN  IsNaN(row.ror) =>
                /\ row.b = 0 \/ row.c = 0
                /\ row.is_signal <=>
                      /\ ~IsNaN(row.prr) /\ row.prr.n > 2 * row.prr.d
                      /\ ~IsNaN(row.chi2) /\ row.chi2.n > 4 * row.chi2.d
                      /\ row.a >= 3
                /\ (IsNaN(row.prr) \/ IsNaN(row.chi2)) => ~row.is_signal

\* C30 witness: a returned table with a row of NaN ror that is a signal, by
\* the PRR sub-rule.
C30_Witness_SignalWithNaNRor ==
    /\ Returned
    /\ \E k \in 1..Len(ret) : IsNaN(ret[k].ror) /\ ret[k].is_signal

C28_OneLatestRowPerCase ==
    Len(deduped) = 1 =>
        LET kept == deduped[1]
        IN  /\ {kept[k].caseid : k \in 1..Len(kept)}
                  = {demo_df[i].caseid : i \in 1..Len(demo_df)}
            /\ \A k, l \in 1..Len(kept) :
                  k # l => kept[k].caseid # kept[l].caseid
            /\ \A k \in 1..Len(kept) :
                  /\ \E i \in 1..Len(demo_df) :
                        /\ demo_df[i].caseid = kept[k].caseid
                        /\ demo_df[i].fda_dt = kept[k].fda_dt
                  /\ \A i \in 1..Len(demo_df) :
                        (demo_df[i].caseid = kept[k].caseid
                            /\ ~demo_df[i].fda_dt.nat)
                        => /\ ~kept[k].fda_dt.nat
                           /\ kept[k].fda_dt.day >= demo_df[i].fda_dt.day
            /\ demo_df = ConvertDates(TestDemo) =>
                  /\ Len(kept) = 3
                  /\ \E k \in 1..3 : kept[k].caseid = 1
                                     /\ kept[k].fda_dt = Timestamp(32)

\* C28 witness: a case with an earlier report, then a later one, then one
\* without a valid date was reduced to the later report.
C28_Witness_FollowUpKept ==
    /\ Len(deduped) = 1 /\ Len(demo_df) = 3 /\ Len(deduped[1]) = 1
    /\ ~demo_df[1].fda_dt.nat /\ ~demo_df[2].fda_dt.nat
    /\ demo_df[1].fda_dt.day < demo_df[2].fda_dt.day
    /\ demo_df[3].fda_dt.nat
    /\ deduped[1][1].fda_dt = demo_df[2].fda_dt

=============================================================================
